---- MODULE Spec2Model ----
(***************************************************************************)
(* Cloudflare Workers AI provider adapter                                  *)
(* (src/src/libs/agent-runtime/cloudflare/index.ts, lines 1-208).          *)
(*                                                                         *)
(* Three independent parts of the adapter are modelled, each with its own  *)
(* specification over the same variables:                                  *)
(*   SpecStream  CloudflareStreamTransformer fed by the chunks of a stream *)
(*   SpecChat    constructor + LobeCloudflareAI.chat                       *)
(*   SpecModels  LobeCloudflareAI.models and the model normaliser          *)
(*                                                                         *)
(* Text is a sequence of atoms; an atom is a short piece of text that the  *)
(* network never cuts (cuts fall between atoms).  The delimiter "\n\n",    *)
(* the "data: " prefix and the "[DONE]" sentinel are each made of two      *)
(* atoms, so a chunk boundary can fall inside any of them.                 *)
(***************************************************************************)
EXTENDS Integers, Sequences, FiniteSets, TLC

VARIABLES
    \* ---- CloudflareStreamTransformer and the stream it is piped into ----
    stream,        \* the whole vendor response body (text)
    pos,           \* number of atoms of stream already delivered to transform
    buffer,        \* CloudflareStreamTransformer.buffer
    emitted,       \* values passed to controller.enqueue, in order
    status,        \* state of the TransformStream: "open" | "errored" | "closed"
    lastCall,      \* how the last transform call ended: "none" | "returned" | "sentinel" | "threw"
    doneSeen,      \* history: some transform call took the `return` of line 107
    streamError,   \* the event text on which parseChunk threw (<<>> if none)
    calls,         \* history: number of transform calls so far
    \* ---- LobeCloudflareAI instance and chat ----
    baseURL, accountID, apiKey,   \* fields set by the constructor
    ctorInput,     \* the constructor's baseURLOrAccountID argument
    chatState,     \* "idle" | "fetching" | "returned" | "threw"
    optHeaders,    \* options.headers object of the call in progress (mutated by chat)
    callHeaders,   \* options.headers as the caller passed it
    sentHeaders,   \* headers handed to fetch
    respStatus,    \* response.status (0: no response)
    chatError,     \* what chat threw (NoError if nothing)
    \* ---- LobeCloudflareAI.models ----
    modelsState,   \* "idle" | "returned" | "rejected"
    upstream,      \* what the model-search endpoint answers (fetch / response.json())
    modelsResult   \* the list models() resolved with

streamVars == <<stream, pos, buffer, emitted, status, lastCall, doneSeen, streamError,
                calls>>
chatVars   == <<baseURL, accountID, apiKey, ctorInput, chatState, optHeaders,
                callHeaders, sentHeaders, respStatus, chatError>>
modelsVars == <<modelsState, upstream, modelsResult>>
vars       == <<streamVars, chatVars, modelsVars>>

-----------------------------------------------------------------------------
(* Bounds *)
MaxEvents  == 2    \* events in a vendor stream
MaxSegs    == 2    \* path segments of a base URL given to the constructor
MaxRecords == 2    \* records in the `result` list of the model search

-----------------------------------------------------------------------------
(* Text helpers: String.prototype.trim / split as used by transform *)

NL == "\n"
Whitespace == {" ", NL}

RECURSIVE TrimStart(_)
TrimStart(s) ==
    IF s # <<>> /\ Head(s) \in Whitespace THEN TrimStart(Tail(s)) ELSE s

RECURSIVE TrimEnd(_)
TrimEnd(s) ==
    IF s # <<>> /\ s[Len(s)] \in Whitespace
    THEN TrimEnd(SubSeq(s, 1, Len(s) - 1)) ELSE s

Trim(s) == TrimEnd(TrimStart(s))

\* text.split('\n\n'): left-to-right, non-overlapping occurrences of the delimiter
RECURSIVE SplitAcc(_, _)
SplitAcc(s, cur) ==
    IF s = <<>> THEN <<cur>>
    ELSE IF Len(s) >= 2 /\ s[1] = NL /\ s[2] = NL
         THEN <<cur>> \o SplitAcc(SubSeq(s, 3, Len(s)), <<>>)
         ELSE SplitAcc(Tail(s), Append(cur, Head(s)))

\* mutant of Split: the text is cut at the first delimiter only
SplitFirst(s) ==
    LET at == {i \in 1..(Len(s) - 1) : s[i] = NL /\ s[i + 1] = NL} IN
    IF at = {} THEN <<s>>
    ELSE LET i == CHOOSE x \in at : \A y \in at : x <= y IN
         <<SubSeq(s, 1, i - 1), SubSeq(s, i + 2, Len(s))>>

Split(s) == SplitAcc(s, <<>>)

Contains(s, a, b) == \E i \in 1..(Len(s) - 1) : s[i] = a /\ s[i + 1] = b

-----------------------------------------------------------------------------
(* The vendor's wire format *)

DataPrefix == <<"da", "ta: ">>              \* "data: "
OpenObj    == "{\"response\":\""            \* start of a JSON object with a string `response`
CloseObj   == "\"}"
StrAtoms   == {"Hel", "lo", "a"}            \* pieces of JSON string content
Delim      == <<NL, NL>>

\* /\[DONE]/.test(text)  (line 105: no `i` flag)
TestDone(text) == Contains(text, "[DO", "NE]")

\* String.prototype.toUpperCase on the atoms that have letters of interest
UpperAtom(a) ==
    CASE a = "[do" -> "[DO"
      [] a = "ne]" -> "NE]"
      [] OTHER -> a
ToUpperCase(s) == [i \in 1..Len(s) |-> UpperAtom(s[i])]

\* chunk.replace(/^data: /, '')
StripDataPrefix(chunk) ==
    IF Len(chunk) >= 2 /\ SubSeq(chunk, 1, 2) = DataPrefix
    THEN SubSeq(chunk, 3, Len(chunk))
    ELSE chunk

\* JSON.parse followed by `.response`: JSON text may be surrounded by whitespace;
\* the only documents of the wire format are objects with a string `response`.
JSONParse(json) ==
    LET t == Trim(json) IN
    IF /\ Len(t) >= 2
       /\ t[1] = OpenObj
       /\ t[Len(t)] = CloseObj
       /\ \A i \in 2..(Len(t) - 1) : t[i] \in StrAtoms
    THEN [ok |-> TRUE, response |-> SubSeq(t, 2, Len(t) - 1)]
    ELSE [ok |-> FALSE, response |-> <<>>]        \* SyntaxError

\* JSON.stringify of a string
JSONStringify(str) == <<"\"">> \o str \o <<"\"">>

\* parseChunk (lines 89-95): the two values it enqueues, or a throw
parseChunk(chunk) ==
    LET parsedChunk == JSONParse(StripDataPrefix(chunk)) IN
    IF parsedChunk.ok
    THEN [ok |-> TRUE,
          out |-> << <<"event: text\n">>,
                     <<"data: ">> \o JSONStringify(parsedChunk.response) \o <<"\n\n">> >>]
    ELSE [ok |-> FALSE, out |-> <<>>]

-----------------------------------------------------------------------------
(* CloudflareStreamTransformer.transform (lines 97-115) *)

\* the for loop of lines 104-110 from index i on, then lines 111-114
RECURSIVE TransformLoop(_, _, _, _)
TransformLoop(splits, i, buf, out) ==
    IF i > Len(splits) - 1
    THEN LET lastChunk == splits[Len(splits)] IN
         [buffer |-> IF Trim(lastChunk) # <<>> THEN buf \o lastChunk ELSE buf,
          out |-> out, outcome |-> "returned", failed |-> <<>>]
    ELSE IF TestDone(Trim(splits[i]))
         THEN [buffer |-> buf, out |-> out, outcome |-> "sentinel", failed |-> <<>>]
         ELSE LET r == parseChunk(splits[i]) IN
              IF r.ok
              THEN TransformLoop(splits, i + 1, buf, out \o r.out)
              ELSE [buffer |-> buf, out |-> out, outcome |-> "threw",
                    failed |-> splits[i]]

\* mutant of PrependBuffer: the pending fragment is forgotten
PrependBufferLost(buf, chunk) == [text |-> chunk, buffer |-> <<>>]

\* lines 98-102
PrependBuffer(buf, chunk) ==
    IF Trim(buf) # <<>>
    THEN [text |-> buf \o chunk, buffer |-> <<>>]
    ELSE [text |-> chunk, buffer |-> buf]

transform(buf, chunk) ==
    LET p == PrependBuffer(buf, chunk) IN
    TransformLoop(Split(p.text), 1, p.buffer, <<>>)

-----------------------------------------------------------------------------
(* Streams fed to the transformer *)

Frame(str)  == DataPrefix \o <<OpenObj>> \o str \o <<CloseObj>>
FrameHello  == Frame(<<"Hel", "lo">>)                 \* data: {"response":"Hello"}
FrameA      == Frame(<<"a">>)                         \* data: {"response":"a"}
Done        == DataPrefix \o <<"[DO", "NE]">>         \* data: [DONE]
DoneLower   == DataPrefix \o <<"[do", "ne]">>         \* data: [done]
DonePadded  == <<" ">> \o DataPrefix \o <<"[DO", "NE]", " ">>
Malformed   == DataPrefix \o <<"oops">>               \* neither JSON nor sentinel

Frames    == {FrameHello, FrameA}
Sentinels == {Done, DoneLower, DonePadded}
Events    == Frames \cup Sentinels \cup {Malformed}

EventLists == UNION {[1..n -> Events] : n \in 0..MaxEvents}

RECURSIVE Wire(_)
Wire(evs) == IF evs = <<>> THEN <<>> ELSE Head(evs) \o Delim \o Wire(Tail(evs))

\* streams of the documented wire format: data frames, then at most one
\* sentinel, which is the last event
IsVendorList(evs) ==
    \A i \in 1..Len(evs) :
        \/ evs[i] \in Frames
        \/ evs[i] \in Sentinels /\ i = Len(evs)
VendorStreams == {Wire(evs) : evs \in {l \in EventLists : IsVendorList(l)}}

InitStream ==
    /\ stream \in {Wire(evs) : evs \in EventLists}
    /\ pos = 0
    /\ buffer = <<>>
    /\ emitted = <<>>
    /\ status = "open"
    /\ lastCall = "none"
    /\ doneSeen = FALSE
    /\ streamError = <<>>
    /\ calls = 0

\* the transport delivers the next n atoms of the body as one chunk
Transform(n) ==
    /\ status = "open"
    /\ pos + n <= Len(stream)
    /\ LET r == transform(buffer, SubSeq(stream, pos + 1, pos + n)) IN
       /\ buffer' = r.buffer
       /\ emitted' = emitted \o r.out
       /\ lastCall' = r.outcome
       /\ doneSeen' = (doneSeen \/ r.outcome = "sentinel")
       /\ status' = IF r.outcome = "threw" THEN "errored" ELSE "open"
       /\ streamError' = r.failed
    /\ pos' = pos + n
    /\ calls' = calls + 1
    /\ UNCHANGED <<stream, chatVars, modelsVars>>

\* the response body ends; the transformer has no flush
Close ==
    /\ status = "open"
    /\ pos = Len(stream)
    /\ status' = "closed"
    /\ UNCHANGED <<stream, pos, buffer, emitted, lastCall, doneSeen, streamError,
                   calls, chatVars, modelsVars>>

-----------------------------------------------------------------------------
(* URLs.  A URL string is a sequence of atoms: an origin (scheme, host and  *)
(* port), then "/" and path-segment atoms, then possibly a search atom.    *)

DEFAULT_BASE_URL_PREFIX == "https://api.cloudflare.com"
CustomOrigin == "https://gateway.example.com:8443"
BadOrigin    == "http//bad"                   \* starts with "http", is no URL
Origins      == {DEFAULT_BASE_URL_PREFIX, CustomOrigin, BadOrigin}

HexA == "0123456789abcdef0123456789abcdef"
HexB == "fedcba9876543210FEDCBA9876543210"
Hex32 == {HexA, HexB}                         \* atoms matching [\dA-Fa-f]{32}
SegAtoms == {"accounts", "run"} \cup Hex32
Searches == {"?v=1"}
Mask == "****"

\* fillUrl (lines 13-15)
fillUrl(id) ==
    <<DEFAULT_BASE_URL_PREFIX, "/", "client", "/", "v4", "/", "accounts", "/">>
        \o id \o <<"/", "ai", "/", "run">>

\* index of every match of /\/[\dA-Fa-f]{32}\// in s
HexMatches(s) ==
    {i \in 1..(Len(s) - 2) : s[i] = "/" /\ s[i + 1] \in Hex32 /\ s[i + 2] = "/"}

Min(S) == CHOOSE x \in S : \A y \in S : x <= y
Max(S) == CHOOSE x \in S : \A y \in S : x >= y

\* desensitizeAccountId (lines 17-19): String.replace with a non-global regex
\* replaces the first match only
desensitizeAccountId(path) ==
    IF HexMatches(path) = {} THEN path
    ELSE LET i == Min(HexMatches(path)) IN
         SubSeq(path, 1, i) \o <<Mask>> \o SubSeq(path, i + 2, Len(path))

\* new URL(url): fails on a string without a scheme; pathname of a URL
\* without path is "/"
URLValid(url) == url # <<>> /\ Head(url) \in Origins \ {BadOrigin}
URLSearch(url) == IF url[Len(url)] \in Searches THEN <<url[Len(url)]>> ELSE <<>>
URLPathname(url) ==
    LET p == SubSeq(url, 2, Len(url) - Len(URLSearch(url))) IN
    IF p = <<>> THEN <<"/">> ELSE p

\* desensitizeUrl of ../utils/desensitizeUrl: masks the host of an origin
desensitizeUrl(origin) == <<"https://***.example.com:****">>

\* desensitizeCloudflareUrl (lines 21-30); only called on a valid URL
desensitizeCloudflareUrl(url) ==
    IF Head(url) = DEFAULT_BASE_URL_PREFIX
    THEN <<Head(url)>> \o desensitizeAccountId(URLPathname(url)) \o URLSearch(url)
    ELSE desensitizeUrl(Head(url)) \o desensitizeAccountId(URLPathname(url))
             \o URLSearch(url)

\* constructor (lines 123-133)
StartsWithHttp(s) == s # <<>> /\ Head(s) \in Origins
ExtractAccountID(s) ==      \* replaceAll(/^.*\/([\dA-Fa-f]{32})\/.*$/g, '$1'), greedy
    IF HexMatches(s) = {} THEN s ELSE <<s[Max(HexMatches(s)) + 1]>>
ConstructBaseURL(input) == IF StartsWithHttp(input) THEN input ELSE fillUrl(input)
ConstructAccountID(input) ==
    IF StartsWithHttp(input) THEN ExtractAccountID(input) ELSE input

\* constructor arguments
RECURSIVE PathOf(_)
PathOf(segs) == IF segs = <<>> THEN <<>> ELSE <<"/", Head(segs)>> \o PathOf(Tail(segs))
SegLists == UNION {[1..n -> SegAtoms] : n \in 0..MaxSegs}
UrlInputs ==
    {<<o>> \o PathOf(segs) \o slash \o q :
        o \in Origins, segs \in SegLists, slash \in {<<>>, <<"/">>},
        q \in {<<>>} \cup {<<x>> : x \in Searches}}
BareIds == {<<HexA>>, <<HexB>>}
CtorInputs == UrlInputs \cup BareIds
NoKey == "undefined"
ApiKeys == {NoKey, "sk-1"}

-----------------------------------------------------------------------------
(* chat (lines 135-176) *)

Cloudflare == "cloudflare"       \* ModelProvider.Cloudflare
Anthropic  == "anthropic"        \* ModelProvider.Anthropic
ProviderBizError        == "ProviderBizError"
InvalidProviderAPIKey   == "InvalidProviderAPIKey"
LocationNotSupportError == "LocationNotSupportError"

HeaderNames == {"Authorization", "Content-Type", "X-Trace"}
CallerValue(h) ==
    CASE h = "Authorization" -> <<"Bearer ", "caller-token">>
      [] h = "Content-Type"  -> <<"text/plain">>
      [] OTHER               -> <<"trace-1">>
\* options?.headers || {}
CallerHeaders == {[h \in D |-> CallerValue(h)] : D \in SUBSET HeaderNames}

Put(obj, k, v) == [h \in DOMAIN obj \cup {k} |-> IF h = k THEN v ELSE obj[h]]
\* { ...a, ...b }
Spread(a, b) == [h \in DOMAIN a \cup DOMAIN b |-> IF h \in DOMAIN b THEN b[h] ELSE a[h]]

\* mutant of WithAuthorization: the bearer token is set only if the caller set none
WithAuthorizationIfAbsent(headers, key) ==
    IF key # NoKey /\ "Authorization" \notin DOMAIN headers
    THEN Put(headers, "Authorization", <<"Bearer ", key>>) ELSE headers

\* lines 140-142
WithAuthorization(headers, key) ==
    IF key # NoKey THEN Put(headers, "Authorization", <<"Bearer ", key>>) ELSE headers

\* line 146
RequestHeaders(headers) == Spread([h \in {"Content-Type"} |-> <<"application/json">>], headers)

NoError == [tag |-> "none"]
NoHeaders == [h \in {} |-> <<>>]
InvalidURL == [tag |-> "TypeError", message |-> "Invalid URL"]
FetchFailed == [tag |-> "TypeError", message |-> "fetch failed"]
ResponseOf(st) == [tag |-> "Response", status |-> st]

\* the catch block of lines 166-175; desensitizeCloudflareUrl throws in it
\* when the base URL is no URL
ChatCatch(url, error) ==
    IF URLValid(url)
    THEN [tag |-> "AgentRuntimeError",
          endpoint |-> desensitizeCloudflareUrl(url),
          error |-> error,
          errorType |-> ProviderBizError,
          provider |-> Anthropic]
    ELSE InvalidURL

\* the switch of lines 152-161: the error thrown for a status, NoError if none
StatusError(url, st) ==
    IF st = 400
    THEN [tag |-> "AgentRuntimeError",
          endpoint |-> desensitizeCloudflareUrl(url),
          error |-> ResponseOf(st),
          errorType |-> ProviderBizError,
          provider |-> Cloudflare]
    ELSE NoError

Statuses == {200, 400, 401, 403, 500}

InitChat ==
    /\ ctorInput \in CtorInputs
    /\ baseURL = ConstructBaseURL(ctorInput)
    /\ accountID = ConstructAccountID(ctorInput)
    /\ apiKey \in ApiKeys
    /\ chatState = "idle"
    /\ optHeaders = NoHeaders
    /\ callHeaders = NoHeaders
    /\ sentHeaders = NoHeaders
    /\ respStatus = 0
    /\ chatError = NoError

\* lines 136-148 up to the await of fetch; new URL(model, this.baseURL) throws
\* on a base that is no URL
ChatCall(hs) ==
    /\ chatState # "fetching"
    /\ callHeaders' = hs
    /\ optHeaders' = WithAuthorization(hs, apiKey)
    /\ respStatus' = 0
    /\ IF URLValid(baseURL)
       THEN /\ chatState' = "fetching"
            /\ sentHeaders' = RequestHeaders(optHeaders')
            /\ chatError' = NoError
       ELSE /\ chatState' = "threw"
            /\ sentHeaders' = NoHeaders
            /\ chatError' = ChatCatch(baseURL, InvalidURL)
    /\ UNCHANGED <<baseURL, accountID, apiKey, ctorInput, streamVars, modelsVars>>

\* fetch rejects (network failure)
FetchRejects ==
    /\ chatState = "fetching"
    /\ chatState' = "threw"
    /\ chatError' = ChatCatch(baseURL, FetchFailed)
    /\ UNCHANGED <<baseURL, accountID, apiKey, ctorInput, optHeaders, callHeaders,
                   sentHeaders, respStatus, streamVars, modelsVars>>

\* fetch resolves with a response of status st: lines 150-165, and the catch
\* block for what the switch throws
FetchResolves(st) ==
    /\ chatState = "fetching"
    /\ respStatus' = st
    /\ IF StatusError(baseURL, st) # NoError
       THEN /\ chatState' = "threw"
            /\ chatError' = ChatCatch(baseURL, StatusError(baseURL, st))
       ELSE /\ chatState' = "returned"      \* StreamingResponse(body piped through the transformer)
            /\ chatError' = NoError
    /\ UNCHANGED <<baseURL, accountID, apiKey, ctorInput, optHeaders, callHeaders,
                   sentHeaders, streamVars, modelsVars>>

-----------------------------------------------------------------------------
(* Model metadata normaliser (lines 32-83) *)

CF_PROPERTY_NAME == "property_id"
NonString == "<boolean true>"     \* a property value that is no string
UndefinedName == <<"<undefined>">>

\* String.prototype.toLowerCase on property values
ToLowerCase(v) ==
    CASE v = "True" -> "true"
      [] v = "TRUE" -> "true"
      [] OTHER -> v

\* `string == true`: the boolean becomes 1, the string becomes Number(string);
\* of the property values only "1" is a numeral for 1, the words are NaN
NumberIsOne(v) == v = "1"
LooseEqualsTrue(v) == NumberIsOne(v)

\* model['properties'].filter(property => property[CF_PROPERTY_NAME] === key)
PropertiesOf(model, key) ==
    SelectSeq(model.properties, LAMBDA p : p.key = CF_PROPERTY_NAME /\ p.id = key)

\* the lookup of getModelBeta / getModelFunctionCalling: try { filter; length === 1;
\* value.toLowerCase() == true } catch { false }
FlagProperty(model, key) ==
    IF ~model.hasProperties THEN FALSE                    \* TypeError, caught
    ELSE LET found == PropertiesOf(model, key) IN
         IF Len(found) = 1
         THEN IF found[1].value = NonString THEN FALSE    \* TypeError, caught
              ELSE LooseEqualsTrue(ToLowerCase(found[1].value))
         ELSE FALSE

getModelBeta(model) == FlagProperty(model, "beta")
getModelFunctionCalling(model) == FlagProperty(model, "function_calling")

\* parseInt on property values
ParseInt(v) == IF v \in {"4096", "1"} THEN v ELSE "NaN"

\* getModelTokens (lines 71-83)
getModelTokens(model) ==
    IF ~model.hasProperties THEN "undefined"
    ELSE LET found == PropertiesOf(model, "max_total_tokens") IN
         IF Len(found) = 1
         THEN IF found[1].value = NonString THEN "NaN" ELSE ParseInt(found[1].value)
         ELSE "undefined"

\* modelId.split('/').at(-1): the text after the last "/"
RECURSIVE LastSegment(_)
LastSegment(name) ==
    IF \E i \in 1..Len(name) : name[i] = "/"
    THEN LastSegment(Tail(name)) ELSE name

\* getModelDisplayName (lines 47-54); throws when name is undefined
getModelDisplayName(model, beta) ==
    IF model.name = UndefinedName THEN [ok |-> FALSE, value |-> <<>>]
    ELSE [ok |-> TRUE,
          value |-> IF beta THEN LastSegment(model.name) \o <<" (Beta)">>
                    ELSE LastSegment(model.name)]

-----------------------------------------------------------------------------
(* models (lines 178-207) *)

TextGeneration == "Text Generation"
UndefinedTask == "<undefined>"
Tasks == {TextGeneration, "Text-to-Image", UndefinedTask}
Names == {<<"@hf", "/", "org", "/", "llama-3">>, <<"plain">>, UndefinedName}

Prop(key, id, value) == [key |-> key, id |-> id, value |-> value]
Beta(value) == Prop(CF_PROPERTY_NAME, "beta", value)
PropertyBags ==
    { <<>>,
      <<Beta("true")>>, <<Beta("True")>>, <<Beta("1")>>, <<Beta("false")>>,
      <<Beta(NonString)>>,
      <<Beta("true"), Beta("true")>>,
      <<Prop("name", "beta", "true")>>,
      <<Prop(CF_PROPERTY_NAME, "function_calling", "1"),
        Prop(CF_PROPERTY_NAME, "max_total_tokens", "4096")>> }

\* of a record that is not a text-generation model only `task` is read
ModelRecords ==
    {[task |-> TextGeneration, name |-> n, description |-> "d",
      hasProperties |-> TRUE, properties |-> ps] : n \in Names, ps \in PropertyBags}
    \cup
    {[task |-> TextGeneration, name |-> n, description |-> "d",
      hasProperties |-> FALSE, properties |-> <<>>] : n \in Names}
    \cup
    {[task |-> t, name |-> n, description |-> "d",
      hasProperties |-> TRUE, properties |-> <<>>] :
        t \in Tasks \ {TextGeneration}, n \in {<<"@cf", "/", "sd-xl">>, UndefinedName}}

\* what the HTTP exchange of lines 181-188 can produce: a failure, or a body
\* with a `result` list
FailedUpstreams ==
    {[kind |-> k, result |-> <<>>] : k \in {"fetchThrows", "notJson", "noResult"}}
OkUpstream(l) == [kind |-> "ok", result |-> l]

\* the card built by lines 192-202; ok is FALSE when building it throws
CardOf(model) ==
    LET modelBeta == getModelBeta(model)
        dn == getModelDisplayName(model, modelBeta) IN
    [ok |-> dn.ok,
     card |-> [description |-> model.description,
               displayName |-> dn.value,
               enabled |-> ~modelBeta,
               functionCall |-> getModelFunctionCalling(model),
               id |-> model.name,
               tokens |-> getModelTokens(model)]]

\* the filter predicate of line 190
IsTextGeneration(model) == model.task = TextGeneration

\* the try block of lines 180-203
ModelsTry(u) ==
    IF u.kind # "ok" THEN [ok |-> FALSE, value |-> <<>>]
    ELSE IF \E i \in 1..Len(u.result) : u.result[i].task = UndefinedTask
    THEN [ok |-> FALSE, value |-> <<>>]          \* model['task']['name'] throws
    ELSE LET models == SelectSeq(u.result, IsTextGeneration)
             cards == [i \in 1..Len(models) |-> CardOf(models[i])] IN
         IF \E i \in 1..Len(cards) : ~cards[i].ok
         THEN [ok |-> FALSE, value |-> <<>>]
         ELSE [ok |-> TRUE, value |-> [i \in 1..Len(cards) |-> cards[i].card]]

\* mutant of ModelsCatch: the failure is rethrown
ModelsCatchRethrow(attempt) ==
    IF attempt.ok THEN [state |-> "returned", value |-> attempt.value]
    ELSE [state |-> "rejected", value |-> <<>>]

\* the catch of lines 204-206
ModelsCatch(attempt) ==
    IF attempt.ok THEN [state |-> "returned", value |-> attempt.value]
    ELSE [state |-> "returned", value |-> <<>>]

InitModels ==
    /\ modelsState = "idle"
    /\ \/ upstream \in FailedUpstreams
       \/ \E n \in 0..MaxRecords : \E l \in [1..n -> ModelRecords] : upstream = OkUpstream(l)
    /\ modelsResult = <<>>

\* one call of models(); it takes no argument and calls share no state
Models ==
    /\ modelsState = "idle"
    /\ LET r == ModelsCatch(ModelsTry(upstream)) IN
       /\ modelsState' = r.state
       /\ modelsResult' = r.value
    /\ UNCHANGED <<upstream, streamVars, chatVars>>

-----------------------------------------------------------------------------
(* Specifications *)

\* the parts a specification does not exercise stay in a fixed state
StreamIdle ==
    /\ stream = <<>> /\ pos = 0 /\ buffer = <<>> /\ emitted = <<>>
    /\ status = "open" /\ lastCall = "none" /\ doneSeen = FALSE /\ streamError = <<>>
    /\ calls = 0
ChatIdle ==
    /\ ctorInput = <<HexA>>
    /\ baseURL = ConstructBaseURL(ctorInput)
    /\ accountID = ConstructAccountID(ctorInput)
    /\ apiKey = NoKey
    /\ chatState = "idle"
    /\ optHeaders = NoHeaders /\ callHeaders = NoHeaders /\ sentHeaders = NoHeaders
    /\ respStatus = 0
    /\ chatError = NoError
ModelsIdle ==
    /\ modelsState = "idle"
    /\ upstream = [kind |-> "fetchThrows", result |-> <<>>]
    /\ modelsResult = <<>>

\* a chunk holds between one atom and the whole stream (an event and its
\* delimiter are at most 8 atoms)
ChunkSizes == 1..(8 * MaxEvents)
NextStream == (\E n \in ChunkSizes : Transform(n)) \/ Close
StreamSpecInit == InitStream /\ ChatIdle /\ ModelsIdle
SpecStream == StreamSpecInit /\ [][NextStream]_vars

NextChat ==
    \/ \E hs \in CallerHeaders : ChatCall(hs)
    \/ FetchRejects
    \/ \E st \in Statuses : FetchResolves(st)
ChatSpecInit == StreamIdle /\ InitChat /\ ModelsIdle
SpecChat == ChatSpecInit /\ [][NextChat]_vars

NextModels == Models
ModelsSpecInit == StreamIdle /\ ChatIdle /\ InitModels
SpecModels == ModelsSpecInit /\ [][NextModels]_vars
-----------------------------------------------------------------------------
(* Properties of the Chunk Transcoder, checked under SpecStream *)

\* what transform emits when a fresh transformer is fed the whole stream as
\* a single chunk
OneShot == transform(<<>>, stream)

\* the stream has been consumed: every atom was delivered, or a call threw
\* and errored the stream
Consumed == pos = Len(stream) \/ status = "errored"

C2_NoEmissionAfterDone == [][doneSeen => emitted' = emitted]_vars

\* C3: a complete event whose trimmed text contains "[DONE]" in any letter
\* case is the terminal sentinel: processing it never throws.
C3_SentinelAnyCase ==
    status = "errored" => ~TestDone(ToUpperCase(Trim(streamError)))

\* ---- the transcoder's buffer, call by call ----

\* a transform call is being made in this step, and the text it works on:
\* the pending fragment followed by the chunk delivered
IsTransformCall == calls' = calls + 1
CallText == buffer \o SubSeq(stream, pos + 1, pos')

\* the complete events of the text: every split element but the last
CompleteEvents(text) == SubSeq(Split(text), 1, Len(Split(text)) - 1)

HasDelimiter(text) == Contains(text, NL, NL)
IsSentinelAnyCase(ev) == TestDone(ToUpperCase(Trim(ev)))
IsWellFormed(ev) == parseChunk(ev).ok

\* index of the first event of evs satisfying Stop, Len(evs) + 1 if none
FirstWhere(evs, Stop(_)) ==
    LET hits == {i \in 1..Len(evs) : Stop(evs[i])} IN
    IF hits = {} THEN Len(evs) + 1
    ELSE CHOOSE i \in hits : \A j \in hits : i <= j

\* the values the call has enqueued are the two lines of each of evs[1..n]
EmittedExactly(evs, n) ==
    /\ Len(emitted') = Len(emitted) + 2 * n
    /\ SubSeq(emitted', 1, Len(emitted)) = emitted
    /\ \A j \in 1..n :
           /\ emitted'[Len(emitted) + 2 * j - 1] = <<"event: text\n">>
           /\ emitted'[Len(emitted) + 2 * j] = parseChunk(evs[j]).out[2]

\* C11 as stated: after every transform call, however it ended, the pending
\* buffer holds no "\n\n" and every complete well-formed event of the text
\* that precedes its first sentinel has been enqueued by the call.
C11_AllBeforeSentinelEmitted ==
    [][IsTransformCall =>
          LET evs == CompleteEvents(CallText)
              s == FirstWhere(evs, IsSentinelAnyCase) IN
          /\ ~HasDelimiter(buffer')
          /\ Len(emitted') - Len(emitted) =
                 2 * Cardinality({i \in 1..(s - 1) : IsWellFormed(evs[i])})]_vars

\* C11 (amended): after every transform call, however it ended, the pending
\* buffer holds no "\n\n", and the call has enqueued exactly the complete
\* events of the text that precede its first sentinel or its first
\* unparsable event, in order; when the call returned early or threw the
\* buffer is empty, so no complete event is ever held for a later chunk.
C11_BufferInvariant ==
    [][IsTransformCall =>
          LET StopsAt(ev) == TestDone(Trim(ev)) \/ ~IsWellFormed(ev)
              Holds(evs) ==
                  LET stop == FirstWhere(evs, StopsAt) IN
                  /\ ~HasDelimiter(buffer')
                  /\ EmittedExactly(evs, stop - 1)
                  /\ lastCall' \in {"sentinel", "threw"} => buffer' = <<>>
                  /\ lastCall' = "returned" <=> stop = Len(evs) + 1
          IN Holds(CompleteEvents(CallText))]_vars

\* a call given 'data: {"response":"a"}\n\ndata: oops\n\n' as one chunk: it
\* enqueued the frame of the first event, threw on the second and left the
\* buffer empty
C11_Witness ==
    /\ stream = Wire(<<FrameA, Malformed>>)
    /\ calls = 1
    /\ lastCall = "threw"
    /\ streamError = Malformed
    /\ emitted = << <<"event: text\n">>, <<"data: ", "\"", "a", "\"", "\n\n">> >>
    /\ buffer = <<>>

-----------------------------------------------------------------------------
(* Properties of chat, checked under SpecChat *)

Settled == chatState \in {"returned", "threw"}
\* chat threw a structured error object (not a raw exception)
ThrewStructured == chatState = "threw" /\ chatError.tag = "AgentRuntimeError"

\* C4: an upstream 401 surfaces as an error of kind InvalidProviderAPIKey
\* and an upstream 403 as an error of kind LocationNotSupportError.
C4_StatusClassification ==
    /\ (Settled /\ respStatus = 401) =>
           (ThrewStructured /\ chatError.errorType = InvalidProviderAPIKey)
    /\ (Settled /\ respStatus = 403) =>
           (ThrewStructured /\ chatError.errorType = LocationNotSupportError)

\* the request was made and fetch rejected
NetworkFailure == chatState = "threw" /\ respStatus = 0 /\ URLValid(baseURL)
\* the one generic provider error, carrying the desensitized endpoint
GenericError ==
    /\ ThrewStructured
    /\ chatError.errorType = ProviderBizError
    /\ chatError.endpoint = desensitizeCloudflareUrl(baseURL)

\* C5: every failure on the chat path reaches the caller as the one generic
\* provider error (kind ProviderBizError) carrying the desensitized endpoint:
\* a network failure does, and a response with an unclassified non-2xx
\* status does too, it is never handed back as a successful stream.
C5_AllFailuresWrapped ==
    /\ NetworkFailure => GenericError
    /\ (Settled /\ respStatus = 500) => GenericError

\* C6: no error object thrown by chat shows the account identifier of the
\* instance in its endpoint field.
C6_NoAccountIdLeak ==
    (ThrewStructured /\ Len(accountID) = 1 /\ accountID[1] \in Hex32) =>
        \A i \in 1..Len(chatError.endpoint) : chatError.endpoint[i] # accountID[1]

\* C7: every error object thrown by chat names Cloudflare as its provider.
C7_ProviderIsCloudflare == ThrewStructured => chatError.provider = Cloudflare

\* C10 as stated: on every header name the caller supplied, Authorization
\* included, the value sent is the caller's.
C10_CallerAlwaysWins ==
    chatState = "fetching" =>
        \A h \in DOMAIN callHeaders : sentHeaders[h] = callHeaders[h]

\* C10 (amended): the headers sent are Content-Type: application/json merged
\* with the caller's headers, the caller's value winning on every name but
\* Authorization; when an API key is configured the Authorization sent is
\* "Bearer <key>" whatever the caller supplied, and without an API key the
\* caller's Authorization, if any, is sent.
C10_HeaderMerge ==
    chatState = "fetching" =>
        /\ DOMAIN sentHeaders =
               {"Content-Type"} \cup DOMAIN callHeaders
                   \cup (IF apiKey # NoKey THEN {"Authorization"} ELSE {})
        /\ \A h \in DOMAIN sentHeaders :
               sentHeaders[h] =
                   IF h = "Authorization" /\ apiKey # NoKey THEN <<"Bearer ", apiKey>>
                   ELSE IF h \in DOMAIN callHeaders THEN callHeaders[h]
                   ELSE <<"application/json">>

\* a request in flight of an instance with an API key whose caller supplied
\* both Authorization and Content-Type
C10_Witness ==
    /\ chatState = "fetching"
    /\ apiKey = "sk-1"
    /\ DOMAIN callHeaders = {"Authorization", "Content-Type"}
    /\ sentHeaders["Content-Type"] = <<"text/plain">>
    /\ sentHeaders["Authorization"] = <<"Bearer ", "sk-1">>

-----------------------------------------------------------------------------
(* Properties of models, checked under SpecModels *)

\* positions of the text-generation records in the upstream list, and the
\* k-th of them
TextGenIdx == {i \in 1..Len(upstream.result) : upstream.result[i].task = TextGeneration}
KthTextGen(k) ==
    upstream.result[CHOOSE i \in TextGenIdx : Cardinality({j \in TextGenIdx : j <= i}) = k]

\* something goes wrong during the listing
ListingFails ==
    \/ upstream.kind # "ok"
    \/ \E i \in 1..Len(upstream.result) : upstream.result[i].task = UndefinedTask
    \/ \E i \in TextGenIdx : upstream.result[i].name = UndefinedName

\* C8: models() never rejects; when anything goes wrong it resolves with
\* the empty list, and otherwise with one card per text-generation record,
\* in upstream order.
C8_ModelsNeverFails ==
    /\ modelsState # "rejected"
    /\ modelsState = "returned" =>
           IF ListingFails THEN modelsResult = <<>>
           ELSE /\ Len(modelsResult) = Cardinality(TextGenIdx)
                /\ \A k \in 1..Len(modelsResult) : modelsResult[k].id = KthTextGen(k).name

\* a listing whose second text-generation record has no name
C8_Witness ==
    /\ modelsState = "returned"
    /\ upstream.kind = "ok"
    /\ Len(upstream.result) = 2
    /\ upstream.result[1].task = TextGeneration
    /\ upstream.result[1].name = <<"@hf", "/", "org", "/", "llama-3">>
    /\ upstream.result[2].task = TextGeneration
    /\ upstream.result[2].name = UndefinedName
    /\ modelsResult = <<>>

\* the record has exactly one property keyed beta whose value is "true" in
\* some letter case
HasTrueBeta(model) ==
    /\ model.hasProperties
    /\ Cardinality({i \in 1..Len(model.properties) :
           model.properties[i].key = CF_PROPERTY_NAME /\ model.properties[i].id = "beta"}) = 1
    /\ \E i \in 1..Len(model.properties) :
           /\ model.properties[i].key = CF_PROPERTY_NAME
           /\ model.properties[i].id = "beta"
           /\ model.properties[i].value \in {"true", "True", "TRUE"}

\* C9: a record with exactly one property keyed beta whose value is "true"
\* (compared case-insensitively) is normalised to enabled = false and
\* displayName = last segment of its name + " (Beta)"; so the record named
\* "@hf/org/llama-3" with beta "true" yields "llama-3 (Beta)", disabled.
C9_BetaNormalisation ==
    (modelsState = "returned" /\ ~ListingFails) =>
        \A k \in 1..Len(modelsResult) :
            HasTrueBeta(KthTextGen(k)) =>
                /\ modelsResult[k].enabled = FALSE
                /\ modelsResult[k].displayName =
                       LastSegment(KthTextGen(k).name) \o <<" (Beta)">>

====
